---- MODULE Spec2Model ----
(***************************************************************************)
(* Research Data Lifecycle dashboard (src/main.py): the module-level data  *)
(* load, the lifecycle graph projection, and the Dash callbacks that keep  *)
(* the stage dropdown, the focused-stage graph, the tools table and the    *)
(* tool modal in step with the user's events.                              *)
(* Before it, createdb_from_excel.py makes the database file of a workbook. *)
(*                                                                         *)
(* A DataFrame is a record [columns, rows]; an ordered Python dict is the  *)
(* sequence of its items, in insertion order; Python's None is the value   *)
(* None below, and truthiness is the operator Truthy.                      *)
(***************************************************************************)
EXTENDS Naturals, Sequences, FiniteSets, TLC

VARIABLES
    excel,               \* the workbook that createdb_from_excel.py reads, or None
    db,                  \* the SQLite file: one entry per table, [ok, rows]
    pc,                  \* ("initdb" ->) "import" -> "layout" -> "serving" -> "ready",
                         \* or "crashed"
    log,                 \* what logger.error / logger.warning have recorded
    lifecycle_stages,    \* main.py:70, the dict stage -> stagedesc, as its items
    cycle_connects_df,   \* main.py:73
    substages_df,        \* main.py:76
    tools_df,            \* main.py:83
    full_elements,       \* 'full-lifecycle-graph'.elements
    stage_dropdown,      \* 'stage-dropdown'.value
    tool_sort,           \* 'tool-sort-dropdown'.value
    focused_elements,    \* 'focused-stage-graph'.elements
    tools_table,         \* 'tools-table'.data
    active_cell,         \* 'tools-table'.active_cell (its row), or None
    is_open,             \* 'tool-modal'.is_open
    add_clicks,          \* 'add-tool-button'.n_clicks (0 stands for None)
    save_clicks,         \* 'save-tool-button'.n_clicks (0 stands for None)
    form,                \* the five inputs of the modal's form
    last_event,          \* history: the user's last event
    crud,                \* history: the user's last create / update / delete
    negations            \* history: the invocations of toggle_tool_modal that met its
                         \* condition, counted modulo 2

vars == <<excel, db, pc, log, lifecycle_stages, cycle_connects_df, substages_df, tools_df,
          full_elements, stage_dropdown, tool_sort, focused_elements, tools_table,
          active_cell, is_open, add_clicks, save_clicks, form, last_event, crud,
          negations>>

data_vars == <<excel, db, lifecycle_stages, cycle_connects_df, substages_df, tools_df,
               full_elements>>

-----------------------------------------------------------------------------
(* Bounds of the model. *)

MaxStages == 2      \* rows of the LifeCycle table
MaxConnects == 2    \* rows of the CycleConnects table
MaxTools == 3       \* rows of the Tools table
MaxClicks == 1      \* clicks on a button
MaxSheetRows == 2   \* rows of the workbook's sheet of stages and tool categories
MaxSubStages == 3   \* rows of the SubStage table

-----------------------------------------------------------------------------
(* Python values. *)

None == "None"

\* bool(v) of a string or None.
Truthy(v) == v \notin {None, ""}

\* The None of a dict-valued property (tapNodeData, active_cell).
NoData == [none |-> TRUE]

Range(s) == {s[i] : i \in 1..Len(s)}

Front(s) == SubSeq(s, 1, Len(s) - 1)

SeqsUpTo(S, n) == UNION {[1..k -> S] : k \in 0..n}

-----------------------------------------------------------------------------
(* The database and the queries on it. *)

\* The stage identifiers of the model: non-empty strings, as the names of the
\* lifecycle stages are.
StageIds == {"Plan", "Collect"}

StageDescs == {"d1", "d2"}

ConnectTypes == {"normal", "alternative"}

LifeCycleRows == [stage : StageIds, stagedesc : StageDescs]

ConnectRows == [start : StageIds, end : StageIds, type : ConnectTypes]

\* The rows of CycleConnects, each with its primary key.
WithIds(rows) ==
    [i \in 1..Len(rows) |->
        [id |-> i, start |-> rows[i].start, end |-> rows[i].end, type |-> rows[i].type]]

\* A table the query on which fails (no such table, no such column, no file).
Malformed == [ok |-> FALSE, rows |-> <<>>]

Table(rows) == [ok |-> TRUE, rows |-> rows]

\* pd.DataFrame(): no columns, no rows.
EmptyDataFrame == [columns |-> {}, rows |-> <<>>]

get_dataframe_from_db(table, columns) ==
    IF db[table].ok
    THEN [df |-> [columns |-> columns, rows |-> db[table].rows], logged |-> <<>>]
    ELSE [df |-> EmptyDataFrame,
          logged |-> <<[level |-> "error", msg |-> "Error executing query", table |-> table]>>]

\* key in d, for a dict d kept as its items.
InDict(k, d) == \E i \in 1..Len(d) : d[i].key = k

\* d[k] = v: a key already there keeps its place and takes the new value.
DictSet(d, k, v) ==
    IF InDict(k, d)
    THEN [i \in 1..Len(d) |-> IF d[i].key = k THEN [key |-> k, value |-> v] ELSE d[i]]
    ELSE Append(d, [key |-> k, value |-> v])

\* A faulty variant of to_dict: every record becomes an item, a repeated key included.
RECURSIVE to_dict_keeps_duplicates(_)
to_dict_keeps_duplicates(rows) ==
    IF rows = <<>> THEN <<>>
    ELSE Append(to_dict_keeps_duplicates(Front(rows)),
                [key |-> rows[Len(rows)].stage, value |-> rows[Len(rows)].stagedesc])

\* df.set_index('stage')['stagedesc'].to_dict(), on the rows of df.
RECURSIVE to_dict_fold(_)
to_dict_fold(rows) ==
    IF rows = <<>> THEN <<>>
    ELSE DictSet(to_dict_fold(Front(rows)), rows[Len(rows)].stage, rows[Len(rows)].stagedesc)

to_dict(rows) == to_dict_fold(rows)

-----------------------------------------------------------------------------
(* The lifecycle graph projection. *)

StageNode(stage, desc) ==
    [data |-> [id |-> stage, label |-> stage],
     style |-> [shape |-> "round-rectangle"],
     tooltip |-> [content |-> desc]]

ConnectEdge(row) ==
    [data |-> [source |-> row.start, target |-> row.end, label |-> row.type],
     style |-> [line_style |-> IF row.type = "alternative" THEN "dashed" ELSE "solid",
                target_arrow_shape |-> "triangle"]]

SkipWarning(row) ==
    [level |-> "warning", msg |-> "Skipping edge with non-existent source or target",
     start |-> row.start, end |-> row.end]

\* A faulty variant of the loop: the first dangling connection ends it (break for continue).
RECURSIVE edges_loop_breaks(_, _, _, _)
edges_loop_breaks(stages, rows, i, acc) ==
    IF i > Len(rows) THEN acc
    ELSE IF ~InDict(rows[i].start, stages) \/ ~InDict(rows[i].end, stages)
         THEN [edges |-> acc.edges, warnings |-> Append(acc.warnings, SkipWarning(rows[i]))]
         ELSE edges_loop_breaks(stages, rows, i + 1,
                  [edges |-> Append(acc.edges, ConnectEdge(rows[i])), warnings |-> acc.warnings])

\* main.py:106-122, the loop over cycle_connects_df.iterrows() from row i on.
RECURSIVE edges_loop_from(_, _, _, _)
edges_loop_from(stages, rows, i, acc) ==
    IF i > Len(rows) THEN acc
    ELSE IF ~InDict(rows[i].start, stages) \/ ~InDict(rows[i].end, stages)
         THEN edges_loop_from(stages, rows, i + 1,
                  [edges |-> acc.edges, warnings |-> Append(acc.warnings, SkipWarning(rows[i]))])
         ELSE edges_loop_from(stages, rows, i + 1,
                  [edges |-> Append(acc.edges, ConnectEdge(rows[i])), warnings |-> acc.warnings])

edges_loop(stages, rows, i, acc) == edges_loop_from(stages, rows, i, acc)

\* A faulty variant of stage_nodes: the first item of the dict is left out.
stage_nodes_from_second(stages) ==
    [i \in 1..(IF stages = <<>> THEN 0 ELSE Len(stages) - 1) |->
        StageNode(stages[i + 1].key, stages[i + 1].value)]

\* main.py:89-103: one node per item of lifecycle_stages, in the dict's order.
stage_nodes(stages) == [i \in 1..Len(stages) |-> StageNode(stages[i].key, stages[i].value)]

\* main.py:86-124: the nodes, then the edges; the warnings are what it logs.
create_full_lifecycle_elements(stages, connects) ==
    LET nodes == stage_nodes(stages)
        loop == edges_loop(stages, connects.rows, 1, [edges |-> <<>>, warnings |-> <<>>])
    IN  [elements |-> nodes \o loop.edges, logged |-> loop.warnings]

IsNode(e) == "id" \in DOMAIN e.data

IsEdge(e) == "source" \in DOMAIN e.data

NodesOf(elements) == SelectSeq(elements, IsNode)

EdgesOf(elements) == SelectSeq(elements, IsEdge)

-----------------------------------------------------------------------------
(* The focused stage, the tools of a stage, and their order. *)

SubStageNames == {"Design", "Budget"}

SubStageRows == [substage : SubStageNames, stage : StageIds]

ToolNames == {"Alpha", "Beta"}

ToolDescs == {"x", "y"}

ToolProviders == {"p"}

ToolRows == [ToolName : ToolNames, ToolDesc : ToolDescs, ToolLink : {"u"},
             ToolProvider : ToolProviders, stage : StageIds]

\* The options of 'tool-sort-dropdown'.
SortOptions == {"ToolName", "ToolDesc", "ToolProvider"}

\* The texts of the model, in Python's string order.
TextOrder == <<"", "Alpha", "Beta", "Gamma", "None", "[u](u)", "p", "q", "u", "x", "y">>

StrRank(s) == CHOOSE i \in 1..Len(TextOrder) : TextOrder[i] = s

SubStageNode(substage) ==
    [data |-> [id |-> substage, label |-> substage],
     style |-> [shape |-> "round-rectangle"],
     tooltip |-> [content |-> "Substage: " \o substage]]

SubStageEdge(from, to) ==
    [data |-> [source |-> from, target |-> to],
     style |-> [target_arrow_shape |-> "triangle"]]

\* What a callback gives back: an output, raise PreventUpdate, or an exception.
Output(v) == [update |-> TRUE, value |-> v]

PreventUpdate == [update |-> FALSE, raised |-> "PreventUpdate"]

KeyError == [update |-> FALSE, raised |-> "KeyError"]

\* The property after the callback: an output replaces it, anything else leaves it.
Apply(result, old) == IF result.update THEN result.value ELSE old

\* A faulty variant of create_focused_stage_elements: the edges go on from the last
\* substage to the first.
create_focused_stage_elements_closed(stage) ==
    IF "stage" \notin substages_df.columns THEN KeyError
    ELSE LET of_stage == SelectSeq(substages_df.rows, LAMBDA r : r.stage = stage)
             substages == [i \in 1..Len(of_stage) |-> of_stage[i].substage]
             nodes == [i \in 1..Len(substages) |-> SubStageNode(substages[i])]
             edges == [i \in 1..Len(substages) |->
                          SubStageEdge(substages[i], substages[(i % Len(substages)) + 1])]
         IN  Output(nodes \o edges)

\* main.py:127-156.
create_focused_stage_elements(stage) ==
    IF "stage" \notin substages_df.columns THEN KeyError
    ELSE LET of_stage == SelectSeq(substages_df.rows, LAMBDA r : r.stage = stage)
             substages == [i \in 1..Len(of_stage) |-> of_stage[i].substage]
             nodes == [i \in 1..Len(substages) |-> SubStageNode(substages[i])]
             edges == IF Len(substages) = 0 THEN <<>>
                      ELSE [i \in 1..(Len(substages) - 1) |->
                               SubStageEdge(substages[i], substages[i + 1])]
         IN  Output(nodes \o edges)

\* A faulty variant of get_tools_for_stage: the tools of every stage.
get_tools_of_all_stages(stage) ==
    IF "stage" \notin tools_df.columns THEN KeyError ELSE Output(tools_df.rows)

\* main.py:159-161.
get_tools_for_stage(stage) ==
    IF "stage" \notin tools_df.columns THEN KeyError
    ELSE Output(SelectSeq(tools_df.rows, LAMBDA r : r.stage = stage))

\* The place of row r among rows already in order: after every row not above it.
InsertSorted(sorted, r, by) ==
    LET k == Cardinality({i \in 1..Len(sorted) : StrRank(sorted[i][by]) <= StrRank(r[by])})
    IN  SubSeq(sorted, 1, k) \o <<r>> \o SubSeq(sorted, k + 1, Len(sorted))

RECURSIVE sort_fold(_, _)
sort_fold(rows, by) ==
    IF rows = <<>> THEN <<>>
    ELSE InsertSorted(sort_fold(Front(rows), by), rows[Len(rows)], by)

\* DataFrame.sort_values(by=[by]): ascending, rows of equal key in their order.
sort_values(rows, by) == sort_fold(rows, by)

-----------------------------------------------------------------------------
(* The callbacks. *)

MarkdownLink(link) == "[" \o link \o "](" \o link \o ")"

NewTool(name, desc, link, provider, stage) ==
    [ToolName |-> name, ToolDesc |-> desc,
     ToolLink |-> IF Truthy(link) THEN MarkdownLink(link) ELSE "",
     ToolProvider |-> provider, stage |-> stage]

\* main.py:391, the condition under which Save adds a tool.
SaveAdds(n_clicks, f) ==
    /\ n_clicks # 0
    /\ Truthy(f.name) /\ Truthy(f.desc) /\ Truthy(f.link)
    /\ Truthy(f.provider) /\ Truthy(f.stage)

\* main.py:391-399, the list `data` after the append (a local of the callback).
DataAfterSave(n_clicks, f, data) ==
    IF SaveAdds(n_clicks, f)
    THEN Append(data, NewTool(f.name, f.desc, f.link, f.provider, f.stage))
    ELSE data

\* A faulty variant of update_focused_stage_graph: the elements of the stage the
\* dropdown held before the change.
update_focused_stage_graph_stale(selected_stage) ==
    IF Truthy(selected_stage) THEN create_focused_stage_elements(stage_dropdown)
    ELSE PreventUpdate

\* main.py:339-343.
update_focused_stage_graph(selected_stage) ==
    IF Truthy(selected_stage) THEN create_focused_stage_elements(selected_stage)
    ELSE PreventUpdate

\* main.py:370-374.
update_stage_dropdown(node_data) ==
    IF node_data # NoData THEN Output(node_data.id) ELSE PreventUpdate

\* A faulty variant of update_tools_table: the rows of the stage are added to the
\* list `data` it was given, and that list is the table.
update_tools_table_extends_data(selected_stage, sort_by, n_clicks, f, data) ==
    LET appended == DataAfterSave(n_clicks, f, data)
    IN  IF Truthy(selected_stage)
        THEN LET tools_df_stage == get_tools_for_stage(selected_stage)
             IN  IF tools_df_stage.update
                 THEN Output(appended \o sort_values(tools_df_stage.value, sort_by))
                 ELSE tools_df_stage
        ELSE PreventUpdate

\* main.py:389-410. The appended `data` is dropped: the rows come from tools_df.
update_tools_table(selected_stage, sort_by, n_clicks, f, data) ==
    LET appended == DataAfterSave(n_clicks, f, data)
    IN  IF Truthy(selected_stage)
        THEN LET tools_df_stage == get_tools_for_stage(selected_stage)
             IN  IF tools_df_stage.update
                 THEN Output(sort_values(tools_df_stage.value, sort_by))
                 ELSE tools_df_stage
        ELSE PreventUpdate

\* A faulty variant of toggle_tool_modal: a click on the button alone, or a cell alone,
\* does not negate the flag.
toggle_tool_modal_needs_both(n1, cell, open, rows) ==
    IF n1 # 0 /\ cell # NoData THEN ~open ELSE open

\* main.py:420-424.
toggle_tool_modal(n1, cell, open, rows) ==
    IF n1 # 0 \/ cell # NoData THEN ~open ELSE open

BlankForm == [name |-> "", desc |-> "", link |-> "", provider |-> "", stage |-> ""]

\* main.py:436-441.
load_tool_data(cell, rows) ==
    IF cell # NoData
    THEN LET row == rows[cell.row]
         IN  [name |-> row.ToolName, desc |-> row.ToolDesc, link |-> row.ToolLink,
              provider |-> row.ToolProvider, stage |-> row.stage]
    ELSE BlankForm

-----------------------------------------------------------------------------
(* The initial states: a database file, and the module not yet imported. *)

SampleStages ==
    <<[stage |-> "Plan", stagedesc |-> "d1"], [stage |-> "Collect", stagedesc |-> "d2"]>>

SampleConnects ==
    WithIds(<<[start |-> "Plan", end |-> "Collect", type |-> "normal"],
              [start |-> "Collect", end |-> "Plan", type |-> "alternative"]>>)

SampleSubStages ==
    <<[substage |-> "Design", stage |-> "Plan"], [substage |-> "Budget", stage |-> "Plan"],
      [substage |-> "Budget", stage |-> "Collect"]>>

SampleTools ==
    <<[ToolName |-> "Beta", ToolDesc |-> "x", ToolLink |-> "u", ToolProvider |-> "q",
       stage |-> "Plan"],
      [ToolName |-> "Alpha", ToolDesc |-> "y", ToolLink |-> "u", ToolProvider |-> "p",
       stage |-> "Plan"]>>

\* The history of a session in which nothing was created, updated or deleted.
NoCrud == [op |-> "none", tool |-> NoData, old |-> NoData, read |-> FALSE, loaded |-> NoData]

OtherEvent == [kind |-> "other", selected |-> None, twice |-> FALSE]

UnsetForm == [name |-> None, desc |-> None, link |-> None, provider |-> None, stage |-> None]

InitOn(databases) ==
    /\ excel = NoData
    /\ db \in databases
    /\ pc = "import"
    /\ log = <<>>
    /\ lifecycle_stages = <<>>
    /\ cycle_connects_df = EmptyDataFrame
    /\ substages_df = EmptyDataFrame
    /\ tools_df = EmptyDataFrame
    /\ full_elements = <<>>
    /\ stage_dropdown = None
    /\ tool_sort = None
    /\ focused_elements = <<>>
    /\ tools_table = <<>>
    /\ active_cell = NoData
    /\ is_open = FALSE
    /\ add_clicks = 0
    /\ save_clicks = 0
    /\ form = UnsetForm
    /\ last_event = OtherEvent
    /\ crud = NoCrud
    /\ negations = 0

\* Every LifeCycle and CycleConnects table within the bounds, a failing query included.
ProjectionDatabases ==
    {[LifeCycle |-> l, CycleConnects |-> c,
      SubStage |-> Table(SampleSubStages), Tools |-> Table(SampleTools)] :
        l \in {Malformed} \cup {Table(r) : r \in SeqsUpTo(LifeCycleRows, MaxStages)},
        c \in {Malformed} \cup {Table(WithIds(r)) : r \in SeqsUpTo(ConnectRows, MaxConnects)}}

\* Every Tools table within the bounds, with the stages there or not.
ToolsDatabases ==
    {[LifeCycle |-> Table(l), CycleConnects |-> Table(SampleConnects),
      SubStage |-> Table(SampleSubStages), Tools |-> Table(t)] :
        l \in {<<>>, SampleStages},
        t \in SeqsUpTo(ToolRows, MaxTools)}

\* Every SubStage table within the bounds, with the sample stages.
FocusedDatabases ==
    {[LifeCycle |-> Table(SampleStages), CycleConnects |-> Table(SampleConnects),
      SubStage |-> Table(s), Tools |-> Table(SampleTools)] :
        s \in SeqsUpTo(SubStageRows, MaxSubStages)}

\* The databases of the sessions: the sample one, and one with no stage.
SessionDatabases ==
    {[LifeCycle |-> Table(l), CycleConnects |-> Table(SampleConnects),
      SubStage |-> Table(SampleSubStages), Tools |-> Table(SampleTools)] :
        l \in {<<>>, SampleStages}}

-----------------------------------------------------------------------------
(* Import of the module: main.py:68-83, then the layout, main.py:165-331. *)

LifeCycleQuery == get_dataframe_from_db("LifeCycle", {"stage", "stagedesc"})

ConnectsQuery == get_dataframe_from_db("CycleConnects", {"id", "start", "end", "type"})

SubStageQuery == get_dataframe_from_db("SubStage", {"substage", "stage"})

ToolsQuery ==
    get_dataframe_from_db("Tools", {"ToolName", "ToolDesc", "ToolLink", "ToolProvider", "stage"})

\* main.py:69-83 when set_index('stage') finds its column.
LoadData ==
    /\ pc = "import"
    /\ "stage" \in LifeCycleQuery.df.columns
    /\ lifecycle_stages' = to_dict(LifeCycleQuery.df.rows)
    /\ cycle_connects_df' = ConnectsQuery.df
    /\ substages_df' = SubStageQuery.df
    /\ tools_df' = ToolsQuery.df
    /\ log' = log \o LifeCycleQuery.logged \o ConnectsQuery.logged
                  \o SubStageQuery.logged \o ToolsQuery.logged
    /\ pc' = "layout"
    /\ UNCHANGED <<negations,
                   excel, db, full_elements, stage_dropdown, tool_sort, focused_elements,
                   tools_table, active_cell, is_open, add_clicks, save_clicks, form,
                   last_event, crud>>

\* main.py:69-70 when the LifeCycle query failed: the frame has no 'stage' column,
\* set_index raises KeyError and the import ends there.
LoadDataKeyError ==
    /\ pc = "import"
    /\ "stage" \notin LifeCycleQuery.df.columns
    /\ log' = log \o LifeCycleQuery.logged
    /\ pc' = "crashed"
    /\ UNCHANGED <<negations,
                   excel, db, lifecycle_stages, cycle_connects_df, substages_df, tools_df,
                   full_elements, stage_dropdown, tool_sort, focused_elements,
                   tools_table, active_cell, is_open, add_clicks, save_clicks, form,
                   last_event, crud>>

FirstStage == IF lifecycle_stages # <<>> THEN lifecycle_stages[1].key ELSE None

\* main.py:165-331: the components with the properties the layout gives them.
BuildLayout ==
    /\ pc = "layout"
    /\ LET full == create_full_lifecycle_elements(lifecycle_stages, cycle_connects_df)
       IN  /\ full_elements' = full.elements
           /\ log' = log \o full.logged
    /\ stage_dropdown' = FirstStage
    /\ tool_sort' = "ToolName"
    /\ focused_elements' = <<>>
    /\ tools_table' = <<>>
    /\ active_cell' = NoData
    /\ is_open' = FALSE
    /\ add_clicks' = 0
    /\ save_clicks' = 0
    /\ form' = [UnsetForm EXCEPT !.stage = FirstStage]
    /\ pc' = "serving"
    /\ UNCHANGED <<negations,
                   excel, db, lifecycle_stages, cycle_connects_df, substages_df, tools_df,
                   last_event, crud>>

-----------------------------------------------------------------------------
(* A session: the page is loaded, then each event of the user runs the      *)
(* callbacks whose Input it changes, and those that their outputs change.  *)

\* The Inputs with which an invocation of toggle_tool_modal is to negate the flag: a
\* click count of 'add-tool-button' that is not zero, or an active cell.
Negating(n1, cell) == n1 # 0 \/ cell # NoData

\* The history of the modal after an invocation of toggle_tool_modal on n1 and cell.
Counted(count, n1, cell) == IF Negating(n1, cell) THEN (count + 1) % 2 ELSE count

\* The history of reads: a read of the tools that follows a create, update or delete.
AfterRead(history, result) ==
    IF result.update /\ history.op # "none" THEN [history EXCEPT !.read = TRUE] ELSE history

\* The two callbacks with Input('stage-dropdown', 'value'), run on its new value.
StageChanged(stage) ==
    LET tools == update_tools_table(stage, tool_sort, save_clicks, form, tools_table)
    IN  /\ focused_elements' = Apply(update_focused_stage_graph(stage), focused_elements)
        /\ tools_table' = Apply(tools, tools_table)
        /\ crud' = AfterRead(crud, tools)

\* The first call Dash makes of every callback, on the layout's values. Whether
\* update_focused_stage_graph is among them, its one Input being the output of a
\* callback that raised PreventUpdate, depends on the Dash release: both happen.
PageLoad ==
    /\ pc = "serving"
    /\ LET dropdown == Apply(update_stage_dropdown(NoData), stage_dropdown)
           tools == update_tools_table(dropdown, tool_sort, save_clicks, form, tools_table)
       IN  /\ stage_dropdown' = dropdown
           /\ \E fired \in BOOLEAN :
                 focused_elements' =
                     IF fired THEN Apply(update_focused_stage_graph(dropdown), focused_elements)
                     ELSE focused_elements
           /\ tools_table' = Apply(tools, tools_table)
           /\ crud' = AfterRead(crud, tools)
    /\ is_open' = toggle_tool_modal(add_clicks, active_cell, is_open, tools_table)
    /\ negations' = Counted(negations, add_clicks, active_cell)
    /\ form' = load_tool_data(active_cell, tools_table)
    /\ pc' = "ready"
    /\ UNCHANGED <<data_vars, log, tool_sort, active_cell, add_clicks, save_clicks,
                   last_event>>

\* A tap on the node of stage `stage` in the full lifecycle graph.
TapStageNode(stage) ==
    /\ pc = "ready"
    /\ \E i \in 1..Len(full_elements) :
          /\ IsNode(full_elements[i])
          /\ full_elements[i].data.id = stage
          /\ LET dropdown == Apply(update_stage_dropdown(full_elements[i].data), stage_dropdown)
             IN  /\ stage_dropdown' = dropdown
                 /\ StageChanged(dropdown)
    /\ last_event' = [kind |-> "tap", selected |-> stage, twice |-> last_event.selected = stage]
    /\ UNCHANGED <<negations, data_vars, pc, log, tool_sort, active_cell, is_open, add_clicks,
                   save_clicks, form>>

\* A tap event that carries no node data: update_stage_dropdown raises PreventUpdate
\* and nothing downstream runs.
TapNoData ==
    /\ pc = "ready"
    /\ stage_dropdown' = Apply(update_stage_dropdown(NoData), stage_dropdown)
    /\ last_event' = [kind |-> "tap", selected |-> None, twice |-> FALSE]
    /\ UNCHANGED <<negations, data_vars, pc, log, tool_sort, focused_elements, tools_table,
                   active_cell, is_open, add_clicks, save_clicks, form, crud>>

\* The options of 'stage-dropdown' (main.py:219), and None for a cleared dropdown.
StageOptions == {lifecycle_stages[i].key : i \in 1..Len(lifecycle_stages)} \cup {None}

\* The user picks a value in 'stage-dropdown'.
SelectStage(value) ==
    /\ pc = "ready"
    /\ value \in StageOptions
    /\ value # stage_dropdown
    /\ stage_dropdown' = value
    /\ StageChanged(value)
    /\ last_event' = [kind |-> "select", selected |-> value, twice |-> FALSE]
    /\ UNCHANGED <<negations, data_vars, pc, log, tool_sort, active_cell, is_open, add_clicks,
                   save_clicks, form>>

\* The user picks a sort key in 'tool-sort-dropdown'.
SelectSort(key) ==
    /\ pc = "ready"
    /\ key # tool_sort
    /\ tool_sort' = key
    /\ LET tools == update_tools_table(stage_dropdown, key, save_clicks, form, tools_table)
       IN  /\ tools_table' = Apply(tools, tools_table)
           /\ crud' = AfterRead(crud, tools)
    /\ last_event' = OtherEvent
    /\ UNCHANGED <<negations, data_vars, pc, log, stage_dropdown, focused_elements, active_cell,
                   is_open, add_clicks, save_clicks, form>>

\* A click on 'add-tool-button'.
ClickAddTool ==
    /\ pc = "ready"
    /\ add_clicks < MaxClicks
    /\ add_clicks' = add_clicks + 1
    /\ is_open' = toggle_tool_modal(add_clicks + 1, active_cell, is_open, tools_table)
    /\ negations' = Counted(negations, add_clicks + 1, active_cell)
    /\ last_event' = OtherEvent
    /\ UNCHANGED <<data_vars, pc, log, stage_dropdown, tool_sort, focused_elements,
                   tools_table, active_cell, save_clicks, form, crud>>

\* A click on a cell of row `row` of 'tools-table', another row than the active one.
ClickCell(row) ==
    /\ pc = "ready"
    /\ row \in 1..Len(tools_table)
    /\ active_cell # [row |-> row]
    /\ active_cell' = [row |-> row]
    /\ is_open' = toggle_tool_modal(add_clicks, [row |-> row], is_open, tools_table)
    /\ negations' = Counted(negations, add_clicks, [row |-> row])
    /\ form' = load_tool_data([row |-> row], tools_table)
    /\ crud' = [crud EXCEPT !.loaded = tools_table[row]]
    /\ last_event' = OtherEvent
    /\ UNCHANGED <<data_vars, pc, log, stage_dropdown, tool_sort, focused_elements,
                   tools_table, add_clicks, save_clicks>>

\* The user deletes row `row` of 'tools-table' (row_deletable, main.py:293): the
\* table's data lose the row in the browser; no callback has the data as Input.
DeleteRow(row) ==
    /\ pc = "ready"
    /\ row \in 1..Len(tools_table)
    /\ tools_table' = SubSeq(tools_table, 1, row - 1) \o SubSeq(tools_table, row + 1, Len(tools_table))
    /\ crud' = [op |-> "delete", tool |-> tools_table[row], old |-> NoData, read |-> FALSE,
                loaded |-> crud.loaded]
    /\ last_event' = OtherEvent
    /\ UNCHANGED <<negations, data_vars, pc, log, stage_dropdown, tool_sort, focused_elements,
                   active_cell, is_open, add_clicks, save_clicks, form>>

\* What the user types into the form for a new tool: every field, or all but the link.
NewToolInputs ==
    {[name |-> "Gamma", desc |-> "x", link |-> l, provider |-> "p", stage |-> s] :
        l \in {"u", ""}, s \in {"Plan"}}

\* The user fills the form of the open modal.
TypeNewTool(f) ==
    /\ pc = "ready"
    /\ is_open
    /\ f \in NewToolInputs
    /\ form # f
    /\ form' = f
    /\ last_event' = OtherEvent
    /\ UNCHANGED <<negations, data_vars, pc, log, stage_dropdown, tool_sort, focused_elements,
                   tools_table, active_cell, is_open, add_clicks, save_clicks, crud>>

\* The user changes the description in the form of the open modal.
EditToolDesc(desc) ==
    /\ pc = "ready"
    /\ is_open
    /\ form.desc # desc
    /\ form' = [form EXCEPT !.desc = desc]
    /\ last_event' = OtherEvent
    /\ UNCHANGED <<negations, data_vars, pc, log, stage_dropdown, tool_sort, focused_elements,
                   tools_table, active_cell, is_open, add_clicks, save_clicks, crud>>

FormOf(row) ==
    [name |-> row.ToolName, desc |-> row.ToolDesc, link |-> row.ToolLink,
     provider |-> row.ToolProvider, stage |-> row.stage]

\* The history of a Save: an update when the form holds a row that load_tool_data
\* loaded, with a field changed; a create when it holds a tool of another name;
\* nothing when Save adds no tool or the loaded row is saved as it was.
AfterSave(history, n_clicks, f) ==
    IF ~SaveAdds(n_clicks, f) THEN history
    ELSE IF history.loaded # NoData /\ f = FormOf(history.loaded) THEN history
    ELSE IF history.loaded # NoData /\ f.name = history.loaded.ToolName
         THEN [op |-> "update", tool |-> NewTool(f.name, f.desc, f.link, f.provider, f.stage),
               old |-> history.loaded, read |-> FALSE, loaded |-> history.loaded]
         ELSE [op |-> "create", tool |-> NewTool(f.name, f.desc, f.link, f.provider, f.stage),
               old |-> NoData, read |-> FALSE, loaded |-> history.loaded]

\* A click on 'save-tool-button', in the footer of the open modal.
ClickSave ==
    /\ pc = "ready"
    /\ is_open
    /\ save_clicks < MaxClicks
    /\ save_clicks' = save_clicks + 1
    /\ LET tools == update_tools_table(stage_dropdown, tool_sort, save_clicks + 1, form,
                                       tools_table)
       IN  /\ tools_table' = Apply(tools, tools_table)
           /\ crud' = AfterRead(AfterSave(crud, save_clicks + 1, form), tools)
    /\ last_event' = OtherEvent
    /\ UNCHANGED <<negations, data_vars, pc, log, stage_dropdown, tool_sort, focused_elements,
                   active_cell, is_open, add_clicks, form>>

-----------------------------------------------------------------------------
(* createdb_from_excel.py: the database file is made anew from the workbook. *)

\* The values of the column RESEARCH DATA LIFECYCLE STAGE: names of stages, and
\* cells whose text is a number.
ExcelStages == StageIds \cup {"1", "2"}

\* The rows of the sheet 'Tool categories and description'.
StageSheetRows == [stage : ExcelStages, category : SubStageNames, desc : StageDescs]

\* The sheets with an upper-case name: one of a stage with two tools in one cell and a
\* cell that holds no text, one without the required columns.
SampleToolSheets ==
    <<[sheet |-> "PLAN", required_columns |-> TRUE,
       rows |-> <<[tools |-> <<"Alpha", "Beta">>, desc |-> "x", link |-> "u", provider |-> "p"],
                  [tools |-> NoData, desc |-> "y", link |-> "u", provider |-> "p"]>>],
      [sheet |-> "NOTES", required_columns |-> FALSE, rows |-> <<>>]>>

\* A workbook: the sheet of stages is missing, or lacks its columns, or has rows.
Workbooks ==
    {[stage_sheet |-> s, tool_sheets |-> SampleToolSheets] :
        s \in {NoData, [columns |-> FALSE, rows |-> <<>>]}
              \cup {[columns |-> TRUE, rows |-> r] : r \in SeqsUpTo(StageSheetRows, MaxSheetRows)}}

\* A column of type TEXT stores an integer bound to it as its decimal text.
TextAffinity(n) == ToString(n)

\* createdb_from_excel.py:108-124: (id, start, end, type).
cycle_connects_data ==
    <<<<1, 1, 2, "normal">>, <<2, 2, 3, "normal">>, <<3, 3, 4, "normal">>,
      <<4, 4, 5, "normal">>, <<5, 5, 6, "normal">>, <<6, 6, 7, "normal">>,
      <<7, 7, 8, "normal">>, <<8, 8, 9, "normal">>, <<9, 9, 10, "normal">>,
      <<10, 10, 11, "normal">>, <<11, 11, 12, "normal">>, <<12, 12, 1, "normal">>,
      <<13, 3, 4, "alternative">>, <<14, 4, 5, "alternative">>,
      <<15, 5, 6, "alternative">>>>

\* The rows that the executemany of createdb_from_excel.py:126 leaves in CycleConnects.
CycleConnectsInserted ==
    [i \in 1..Len(cycle_connects_data) |->
        [id |-> cycle_connects_data[i][1],
         start |-> TextAffinity(cycle_connects_data[i][2]),
         end |-> TextAffinity(cycle_connects_data[i][3]),
         type |-> cycle_connects_data[i][4]]]

\* Series.unique(): the values in the order of their first appearance.
RECURSIVE unique(_)
unique(values) ==
    IF values = <<>> THEN <<>>
    ELSE LET before == unique(Front(values))
         IN  IF values[Len(values)] \in Range(before) THEN before
             ELSE Append(before, values[Len(values)])

\* createdb_from_excel.py:77-79: a stage takes the description of its first row.
LifeCycleInserted(rows) ==
    LET lifecycle_data == unique([i \in 1..Len(rows) |-> rows[i].stage])
        of_stage(stage) == SelectSeq(rows, LAMBDA r : r.stage = stage)
    IN  [i \in 1..Len(lifecycle_data) |->
            [stage |-> lifecycle_data[i], stagedesc |-> of_stage(lifecycle_data[i])[1].desc]]

\* createdb_from_excel.py:82-86, in the columns that main.py:76 selects.
SubStageInserted(rows) ==
    [i \in 1..Len(rows) |-> [substage |-> rows[i].category, stage |-> rows[i].stage]]

\* createdb_from_excel.py:98-105: one row per name of a cell that holds text.
ToolsOfRow(row, stage) ==
    IF row.tools = NoData THEN <<>>
    ELSE [i \in 1..Len(row.tools) |->
             [ToolName |-> row.tools[i], ToolDesc |-> row.desc, ToolLink |-> row.link,
              ToolProvider |-> row.provider, stage |-> stage]]

RECURSIVE ToolsOfRows(_, _)
ToolsOfRows(rows, stage) ==
    IF rows = <<>> THEN <<>>
    ELSE ToolsOfRows(Front(rows), stage) \o ToolsOfRow(rows[Len(rows)], stage)

\* createdb_from_excel.py:88-105, over the sheets with an upper-case name.
RECURSIVE ToolsInserted(_)
ToolsInserted(sheets) ==
    IF sheets = <<>> THEN <<>>
    ELSE LET last == sheets[Len(sheets)]
         IN  ToolsInserted(Front(sheets))
                 \o (IF last.required_columns THEN ToolsOfRows(last.rows, last.sheet)
                     ELSE <<>>)

\* The file before the script runs: removed, or never there.
NoDatabase ==
    [LifeCycle |-> Malformed, CycleConnects |-> Malformed,
     SubStage |-> Malformed, Tools |-> Malformed]

\* createdb_from_excel.py:27-56 alone: the inserts of a run that raised are not committed.
TablesCreated ==
    [LifeCycle |-> Table(<<>>), CycleConnects |-> Table(<<>>),
     SubStage |-> Table(<<>>), Tools |-> Table(<<>>)]

\* createdb_from_excel.py:16-135, as the file it leaves.
initialize_database_from_excel(workbook) ==
    IF workbook.stage_sheet # NoData /\ ~workbook.stage_sheet.columns
    THEN TablesCreated
    ELSE LET rows == IF workbook.stage_sheet = NoData THEN <<>>
                     ELSE workbook.stage_sheet.rows
         IN  [LifeCycle |-> Table(LifeCycleInserted(rows)),
              CycleConnects |-> Table(CycleConnectsInserted),
              SubStage |-> Table(SubStageInserted(rows)),
              Tools |-> Table(ToolsInserted(workbook.tool_sheets))]

\* createdb_from_excel.py:138-139: the script is run before the dashboard is.
InitializeDatabase ==
    /\ pc = "initdb"
    /\ db' = initialize_database_from_excel(excel)
    /\ pc' = "import"
    /\ UNCHANGED <<negations, excel, log, lifecycle_stages, cycle_connects_df, substages_df, tools_df,
                   full_elements, stage_dropdown, tool_sort, focused_elements,
                   tools_table, active_cell, is_open, add_clicks, save_clicks, form,
                   last_event, crud>>

-----------------------------------------------------------------------------
(* The specifications. *)

Import == LoadData \/ LoadDataKeyError \/ BuildLayout

SelectEvent ==
    \/ \E stage \in StageIds : TapStageNode(stage)
    \/ TapNoData
    \/ \E value \in StageIds \cup {None} : SelectStage(value)
    \/ \E key \in SortOptions : SelectSort(key)

ToolEvent ==
    \/ ClickAddTool
    \/ \E row \in 1..Len(tools_table) : ClickCell(row)
    \/ \E row \in 1..Len(tools_table) : DeleteRow(row)
    \/ \E f \in NewToolInputs : TypeNewTool(f)
    \/ \E desc \in ToolDescs : EditToolDesc(desc)
    \/ ClickSave

\* A session on the sample database.
Init == InitOn(SessionDatabases)

Next == LoadData \/ BuildLayout \/ PageLoad \/ SelectEvent \/ ToolEvent

Spec == Init /\ [][Next]_vars

\* The import alone, on every LifeCycle and CycleConnects table within the bounds.
InitProjection == InitOn(ProjectionDatabases)

NextProjection == Import

SpecProjection == InitProjection /\ [][NextProjection]_vars

\* The selections of a session, on every Tools table within the bounds.
InitTools == InitOn(ToolsDatabases)

NextTools == LoadData \/ BuildLayout \/ PageLoad \/ SelectEvent

SpecTools == InitTools /\ [][NextTools]_vars

\* The selections of a session, on every SubStage table within the bounds.
InitFocused == InitOn(FocusedDatabases)

NextFocused == LoadData \/ BuildLayout \/ PageLoad \/ SelectEvent

SpecFocused == InitFocused /\ [][NextFocused]_vars

\* The import on the database that createdb_from_excel.py makes of a workbook.
InitExcel ==
    /\ excel \in Workbooks
    /\ db = NoDatabase
    /\ pc = "initdb"
    /\ log = <<>>
    /\ lifecycle_stages = <<>>
    /\ cycle_connects_df = EmptyDataFrame
    /\ substages_df = EmptyDataFrame
    /\ tools_df = EmptyDataFrame
    /\ full_elements = <<>>
    /\ stage_dropdown = None
    /\ tool_sort = None
    /\ focused_elements = <<>>
    /\ tools_table = <<>>
    /\ active_cell = NoData
    /\ is_open = FALSE
    /\ add_clicks = 0
    /\ save_clicks = 0
    /\ form = UnsetForm
    /\ last_event = OtherEvent
    /\ crud = NoCrud
    /\ negations = 0

NextExcel == InitializeDatabase \/ LoadData \/ BuildLayout

SpecExcel == InitExcel /\ [][NextExcel]_vars

-----------------------------------------------------------------------------
(* The lifecycle graph projection, once the layout holds it. *)

StageRecords == db.LifeCycle.rows

ConnectRecords == db.CycleConnects.rows

StageIdentifiers == {StageRecords[i].stage : i \in 1..Len(StageRecords)}

BothEndpoints(c) == c.start \in StageIdentifiers /\ c.end \in StageIdentifiers

Dangling(c) == ~BothEndpoints(c)

Warnings == SelectSeq(log, LAMBDA m : m.level = "warning")

\* C1: create_full_lifecycle_elements emits an edge {source, target, type} for a
\* connection record if and only if both its endpoints are stage identifiers: the
\* edges are the connections with both endpoints, in input order, and the warnings
\* are the other connections, in input order.
EdgesAreTheValidConnections ==
    pc = "serving" =>
        LET kept == SelectSeq(ConnectRecords, BothEndpoints)
            skipped == SelectSeq(ConnectRecords, Dangling)
            edges == EdgesOf(full_elements)
        IN  /\ Len(edges) = Len(kept)
            /\ \A i \in 1..Len(kept) :
                  /\ edges[i].data.source = kept[i].start
                  /\ edges[i].data.target = kept[i].end
                  /\ edges[i].data.label = kept[i].type
            /\ Len(Warnings) = Len(skipped)
            /\ \A i \in 1..Len(skipped) :
                  /\ Warnings[i].start = skipped[i].start
                  /\ Warnings[i].end = skipped[i].end

\* A dangling connection was skipped and a connection after it became an edge.
EdgeAfterSkippedConnection ==
    /\ pc = "serving"
    /\ \E i, j \in 1..Len(ConnectRecords) :
          /\ i < j
          /\ Dangling(ConnectRecords[i])
          /\ BothEndpoints(ConnectRecords[j])
    /\ Len(EdgesOf(full_elements)) >= 1
    /\ Len(Warnings) >= 1

\* C2, as stated: the number of nodes equals the number of stage records.
NodeCountIsRecordCount ==
    pc = "serving" => Len(NodesOf(full_elements)) = Len(StageRecords)

\* C2, amended: the number of nodes equals the number of distinct stage identifiers
\* among the stage records, which is the number of records when no two records
\* share an identifier.
NodeCountIsIdentifierCount ==
    pc = "serving" =>
        /\ Len(NodesOf(full_elements)) = Cardinality(StageIdentifiers)
        /\ Cardinality(StageIdentifiers) = Len(StageRecords)
              => Len(NodesOf(full_elements)) = Len(StageRecords)

\* Two stage records share an identifier and the graph has one node for them.
FewerNodesThanRecords ==
    /\ pc = "serving"
    /\ Len(StageRecords) = 2
    /\ Len(NodesOf(full_elements)) = 1

\* C3: no two nodes share an id, whatever the stage records; of two records with
\* the same identifier, the later one's description is the node's tooltip.
NodeIdsAreDistinct ==
    pc = "serving" =>
        LET nodes == NodesOf(full_elements)
        IN  /\ \A i, j \in 1..Len(nodes) : nodes[i].data.id = nodes[j].data.id => i = j
            /\ \A k \in 1..Len(StageRecords) :
                  (\A later \in (k + 1)..Len(StageRecords) :
                      StageRecords[later].stage # StageRecords[k].stage)
                  => \E i \in 1..Len(nodes) :
                        /\ nodes[i].data.id = StageRecords[k].stage
                        /\ nodes[i].tooltip.content = StageRecords[k].stagedesc

\* Two records with the same identifier and different descriptions: one node, with
\* the later description.
LaterRecordOverwrites ==
    /\ pc = "serving"
    /\ \E i, j \in 1..Len(StageRecords) :
          /\ i < j
          /\ StageRecords[i].stage = StageRecords[j].stage
          /\ StageRecords[i].stagedesc # StageRecords[j].stagedesc
          /\ \E n \in 1..Len(full_elements) :
                /\ IsNode(full_elements[n])
                /\ full_elements[n].data.id = StageRecords[j].stage
                /\ full_elements[n].tooltip.content = StageRecords[j].stagedesc

\* C4: an empty or malformed stage source yields no node, an empty or malformed
\* connection source yields no edge, and no exception ends the import.
FailureIsSuppressed ==
    /\ pc # "crashed"
    /\ pc = "serving" /\ (~db.LifeCycle.ok \/ StageRecords = <<>>)
          => full_elements = <<>>
    /\ pc = "serving" /\ (~db.CycleConnects.ok \/ ConnectRecords = <<>>)
          => EdgesOf(full_elements) = <<>>

-----------------------------------------------------------------------------
(* The selections of a session. *)

ToolRecords == db.Tools.rows

SubStageRecords == db.SubStage.rows

\* How many times x occurs in the sequence s.
Count(x, s) == Cardinality({i \in 1..Len(s) : s[i] = x})

\* The table holds the tool records of `stage`, each as often as the Tools table does,
\* and no other row.
TableHoldsToolsOf(stage) ==
    \A r \in Range(ToolRecords) \cup Range(tools_table) :
        Count(r, tools_table) = IF r.stage = stage THEN Count(r, ToolRecords) ELSE 0

TableAscendsBy(key) ==
    \A i, j \in 1..Len(tools_table) :
        i < j => StrRank(tools_table[i][key]) <= StrRank(tools_table[j][key])

\* The focused graph holds one node per substage record of `stage`, in their order.
FocusedHoldsSubStagesOf(stage) ==
    LET of_stage == SelectSeq(SubStageRecords, LAMBDA r : r.stage = stage)
        nodes == NodesOf(focused_elements)
    IN  /\ Len(nodes) = Len(of_stage)
        /\ \A i \in 1..Len(of_stage) : nodes[i].data.id = of_stage[i].substage

\* The steps in which update_tools_table runs.
ToolsAreRead ==
    \/ PageLoad
    \/ \E stage \in StageIds : TapStageNode(stage)
    \/ \E value \in StageIds \cup {None} : SelectStage(value)
    \/ \E key \in SortOptions : SelectSort(key)
    \/ ClickSave

\* C8: selecting a stage is idempotent and mutates no data: a tap on the stage the
\* last event selected leaves the dropdown, both graphs and the table as they are,
\* and no step of a session changes the loaded stage, connection, substage and
\* tool records.
SelectionIsIdempotent ==
    /\ [][\A stage \in StageIds :
             TapStageNode(stage) /\ last_event.selected = stage
                => UNCHANGED <<stage_dropdown, focused_elements, tools_table, full_elements>>]_vars
    /\ [][(pc \in {"serving", "ready"}) => UNCHANGED data_vars]_vars

\* The same stage was selected twice in a row, and the views show it.
SameStageSelectedTwice ==
    /\ pc = "ready"
    /\ last_event.kind = "tap"
    /\ last_event.twice
    /\ stage_dropdown = last_event.selected
    /\ Len(tools_table) >= 1
    /\ Len(focused_elements) >= 1

TableIsSortedToolsOfStage ==
    [][ToolsAreRead
          => IF Truthy(stage_dropdown')
             THEN TableHoldsToolsOf(stage_dropdown)' /\ TableAscendsBy(tool_sort)'
             ELSE tools_table' = tools_table]_vars

\* The table shows two tools of the selected stage in another order than the Tools
\* table holds them, and leaves out a tool of another stage.
TableFilteredAndReordered ==
    /\ pc = "ready"
    /\ Truthy(stage_dropdown)
    /\ Len(tools_table) = 2
    /\ Len(ToolRecords) = 3
    /\ \E i, j \in 1..Len(ToolRecords) :
          /\ i < j
          /\ tools_table[1] = ToolRecords[j]
          /\ tools_table[2] = ToolRecords[i]
          /\ tools_table[1] # tools_table[2]

-----------------------------------------------------------------------------
(* Create, update and delete of tools, and the reads that follow them. *)

\* C5: after Save is clicked with every field of the form filled, a read of the
\* tools table for the new tool's stage contains the tool.
CreatedToolIsRead ==
    crud.op = "create" /\ crud.read /\ stage_dropdown = crud.tool.stage
        => \E i \in 1..Len(tools_table) : tools_table[i] = crud.tool

\* C6: after a row is deleted from the tools table, a read of the tools by
\* update_tools_table does not contain the deleted tool.
DeletedToolStaysAbsent ==
    crud.op = "delete" /\ crud.read
        => \A i \in 1..Len(tools_table) : tools_table[i] # crud.tool

\* C7: after a row is loaded into the form, changed and saved, a read of the tools
\* table for its stage shows the tool with the new values and not with the old ones.
UpdatedToolIsRead ==
    crud.op = "update" /\ crud.read /\ stage_dropdown = crud.tool.stage
        => /\ \E i \in 1..Len(tools_table) : tools_table[i] = crud.tool
           /\ \A i \in 1..Len(tools_table) : tools_table[i] # crud.old

-----------------------------------------------------------------------------
(* The cycle connections of createdb_from_excel.py, projected by main.py. *)

\* The file is the one that initialize_database_from_excel has written in full.
WrittenFromExcel == pc # "initdb" /\ db.CycleConnects.rows = CycleConnectsInserted

\* C11: every cycle connection that initialize_database_from_excel writes starts and
\* ends at a stage identifier of the LifeCycle table it populates, and the projection
\* of that database has an edge for each of the 15 connections and no warning.
ExcelConnectionsJoinStages ==
    WrittenFromExcel =>
        /\ \A i \in 1..Len(db.CycleConnects.rows) :
               /\ \E j \in 1..Len(db.LifeCycle.rows) :
                      db.LifeCycle.rows[j].stage = db.CycleConnects.rows[i].start
               /\ \E j \in 1..Len(db.LifeCycle.rows) :
                      db.LifeCycle.rows[j].stage = db.CycleConnects.rows[i].end
        /\ pc = "serving" =>
               /\ Len(EdgesOf(full_elements)) = Len(cycle_connects_data)
               /\ Warnings = <<>>

-----------------------------------------------------------------------------
(* The tool modal. *)

\* A step in which toggle_tool_modal is invoked: the page is loaded, or one of its
\* Inputs changes.
ToggleInvoked ==
    \/ pc = "serving" /\ pc' = "ready"
    \/ add_clicks' # add_clicks
    \/ active_cell' # active_cell

\* C12: an invocation of toggle_tool_modal negates the modal's flag when the click
\* count of Add Tool is not zero or a cell is active, and leaves it as it is otherwise;
\* no other step of a session, a click on Save included, changes the flag; so the
\* modal, closed at first, is open exactly when the negating invocations so far are
\* odd in number.
ModalOpenIffNegationsOdd ==
    /\ [](is_open <=> negations = 1)
    /\ [][(pc \in {"serving", "ready"}) =>
             IF ToggleInvoked
             THEN is_open' = (IF Negating(add_clicks', active_cell') THEN ~is_open
                              ELSE is_open)
             ELSE is_open' = is_open]_vars

\* The modal was opened by Add Tool, stayed open over a click on Save, and was closed
\* by the click on a cell: two negating invocations.
ClosedBySecondNegation ==
    /\ pc = "ready"
    /\ add_clicks # 0
    /\ save_clicks # 0
    /\ active_cell # NoData
    /\ ~is_open
    /\ negations = 0

-----------------------------------------------------------------------------
(* The focused graph of a stage. *)

\* The substages of the records of `stage`, in the order of the SubStage table.
SubStagesOf(stage) ==
    LET of_stage == SelectSeq(SubStageRecords, LAMBDA r : r.stage = stage)
    IN  [i \in 1..Len(of_stage) |-> of_stage[i].substage]

\* The elements are n nodes, one per substage of `stage` in order, then n - 1 edges,
\* the i-th from the i-th substage to the next; none at all when n = 0.
IsChainOf(elements, stage) ==
    LET substages == SubStagesOf(stage)
        n == Len(substages)
    IN  /\ Len(NodesOf(elements)) = n
        /\ Len(EdgesOf(elements)) = IF n = 0 THEN 0 ELSE n - 1
        /\ elements = NodesOf(elements) \o EdgesOf(elements)
        /\ \A i \in 1..n :
               /\ elements[i] = SubStageNode(substages[i])
               /\ i < n => elements[n + i] = SubStageEdge(substages[i], substages[i + 1])

\* C13: create_focused_stage_elements(stage) is one node per substage record of the
\* stage, in the order of the records, then one edge from each of these substages to
\* the next: n nodes and n - 1 edges for n >= 1 substages, the empty list for none.
\* It is what the focused graph holds when a tap or the dropdown has selected the
\* stage.
FocusedGraphIsChainOfSubStages ==
    /\ pc \in {"serving", "ready"} =>
           \A stage \in StageIds :
               /\ create_focused_stage_elements(stage).update
               /\ IsChainOf(create_focused_stage_elements(stage).value, stage)
    /\ (pc = "ready" /\ last_event.kind \in {"tap", "select"} /\ Truthy(last_event.selected))
           => IsChainOf(focused_elements, last_event.selected)

\* The selected stage has two substages, with the record of another stage between
\* them: two nodes and the edge from the first to the second.
ChainSkipsOtherStage ==
    /\ pc = "ready"
    /\ last_event.kind \in {"tap", "select"}
    /\ stage_dropdown = last_event.selected
    /\ Len(SubStageRecords) = 3
    /\ SubStageRecords[1].stage = stage_dropdown
    /\ SubStageRecords[2].stage # stage_dropdown
    /\ SubStageRecords[3].stage = stage_dropdown
    /\ SubStageRecords[1].substage # SubStageRecords[3].substage
    /\ Len(focused_elements) = 3
    /\ focused_elements[3].data.source = SubStageRecords[1].substage
    /\ focused_elements[3].data.target = SubStageRecords[3].substage

====
